---- MODULE Spec2Model ----
(***************************************************************************)
(* Price-monitoring dashboard (app.py): clean_currency (also utils.py),   *)
(* load_data, the sidebar, the AI clustering and the first tab.            *)
(*                                                                         *)
(* Text is a sequence of one-character strings.  A spreadsheet cell or a   *)
(* DataFrame cell is a record tagged by k: "txt" (v: text), "num" (a       *)
(* finite float, the decimal m * 10^-e), "nan", "inf", "dtxt" (a date      *)
(* text dd/mm/yyyy HH:MM, held as its numeric fields), "ts" (a timestamp)  *)
(* and "nat" (the null timestamp).                                         *)
(***************************************************************************)
EXTENDS Integers, Sequences, FiniteSets, TLC

VARIABLES
    cx, cdeco, cy, cz, cpc,     \* clean_currency: input text, decoration, result, re-parse, position
    priceSheet, revSheet,       \* the spreadsheet: sheet1 and the "Entrate" worksheet
    sheet1, scraper_runs,       \* sheet1 as the scraper writes it, row by row, and the runs of sync_data so far
    ga4_status, ga4_table,      \* the last run of sync_ga4_to_sheet: how it ended and the table GA4 gave it
    cache,                      \* st.cache_data's entry for load_data
    pc,                         \* position of the dashboard script run
    load_reachable,             \* whether the spreadsheet could be opened when the run called load_data
    load_now,                   \* wall clock read by load_data's body when it produced df_raw
    df_raw,                     \* what load_data returned to the script
    load_error,                 \* the st.error message of load_data, "" when none
    lineage,                    \* per merge label of that load: <<price row, revenue row or 0>>
    df_period, df_latest,       \* the rows of the selected period, and the snapshot
    ui,                         \* what the filter widgets returned
    ai_clusters,                \* st.session_state.ai_clusters
    clicked,                    \* whether the clustering button was pressed in this run
    df_filtered, df_display,    \* the filtered view and the product list
    render_error                \* the uncaught exception of the run, "" when none

curvars == <<cx, cdeco, cy, cz, cpc>>
syncvars == <<sheet1, scraper_runs, ga4_status, ga4_table>>
sheetvars == <<priceSheet, revSheet, syncvars>>
loadvars == <<load_reachable, load_now, df_raw, load_error, lineage>>
runvars == <<df_period, df_latest, ui, clicked, df_filtered, df_display, render_error>>
vars == <<curvars, sheetvars, cache, pc, loadvars, runvars, ai_clusters>>

(* ------------------------------ bounds --------------------------------- *)
\* longest enumerated currency text
MaxLen == 3
\* most rows of the price sheet
MaxRows == 2
\* most rows of the revenue sheet
MaxRevRows == 2
\* most runs of the scraper
MaxSyncRuns == 4

(* ------------------------------ text ----------------------------------- *)
DigitChars == <<"0", "1", "2", "3", "4", "5", "6", "7", "8", "9">>
Digits == {DigitChars[i] : i \in 1..10}
DigitVal(c) == (CHOOSE i \in 1..10 : DigitChars[i] = c) - 1
IsSpace(c) == c = " "

Contains(s, c) == \E i \in 1..Len(s) : s[i] = c
\* str.find(c): index of the first occurrence (1-based here), 0 when absent
Find(s, c) == IF Contains(s, c) THEN CHOOSE i \in 1..Len(s) : s[i] = c /\ \A j \in 1..(i - 1) : s[j] # c ELSE 0
\* str.replace(c, ''): every occurrence removed
Remove(s, c) == SelectSeq(s, LAMBDA ch : ch # c)
\* str.replace(c, d): every occurrence replaced
Replace(s, c, d) == [i \in 1..Len(s) |-> IF s[i] = c THEN d ELSE s[i]] \o <<>>

RECURSIVE LStrip(_)
LStrip(s) == IF s # <<>> /\ IsSpace(Head(s)) THEN LStrip(Tail(s)) ELSE s
RECURSIVE RStrip(_)
RStrip(s) == IF s # <<>> /\ IsSpace(s[Len(s)]) THEN RStrip(SubSeq(s, 1, Len(s) - 1)) ELSE s
\* str.strip()
Strip(s) == RStrip(LStrip(s))

(* ------------------------------ floats --------------------------------- *)
RECURSIVE Pow10(_)
Pow10(n) == IF n = 0 THEN 1 ELSE 10 * Pow10(n - 1)
\* the finite float m * 10^-e, in lowest terms
RECURSIVE Num(_, _)
Num(m, e) == IF e > 0 /\ m % 10 = 0 THEN Num(m \div 10, e - 1) ELSE [k |-> "num", m |-> m, e |-> e]
NaN == [k |-> "nan"]
Inf == [k |-> "inf"]
Zero == Num(0, 0)
\* the exception float() raises
ValueError == [k |-> "ValueError"]

AllDigits(s) == \A i \in 1..Len(s) : s[i] \in Digits
RECURSIVE DigitsVal(_)
DigitsVal(s) == IF s = <<>> THEN 0 ELSE 10 * DigitsVal(SubSeq(s, 1, Len(s) - 1)) + DigitVal(s[Len(s)])

\* float(s) for an unsigned text: digits with at most one '.', and at least
\* one digit; 'nan' and 'inf'; anything else raises ValueError.
PyFloatUnsigned(s) ==
    IF s = <<"n", "a", "n">> THEN NaN
    ELSE IF s = <<"i", "n", "f">> THEN Inf
    ELSE IF s # <<>> /\ AllDigits(s) THEN Num(DigitsVal(s), 0)
    ELSE IF Contains(s, ".")
         THEN LET p == Find(s, ".")
                  ip == SubSeq(s, 1, p - 1)
                  fp == SubSeq(s, p + 1, Len(s))
              IN IF AllDigits(ip) /\ AllDigits(fp) /\ Len(ip) + Len(fp) > 0
                 THEN Num(DigitsVal(ip \o fp), Len(fp))
                 ELSE ValueError
         ELSE ValueError
Negate(f) == IF f.k = "num" THEN Num(0 - f.m, f.e) ELSE f
\* float(s): surrounding whitespace and one leading sign are accepted
PyFloat(s) ==
    LET t == Strip(s)
    IN IF t # <<>> /\ Head(t) = "-" THEN Negate(PyFloatUnsigned(Tail(t)))
       ELSE IF t # <<>> /\ Head(t) = "+" THEN PyFloatUnsigned(Tail(t))
       ELSE PyFloatUnsigned(t)

RECURSIVE NatStr(_)
NatStr(n) == IF n < 10 THEN <<DigitChars[n + 1]>> ELSE NatStr(n \div 10) \o <<DigitChars[(n % 10) + 1]>>
RECURSIVE PadLeft(_, _)
PadLeft(s, n) == IF Len(s) >= n THEN s ELSE PadLeft(<<"0">> \o s, n)
\* str(f) of a float: 'nan', 'inf', or the positional repr with at least
\* one fractional digit ('12.0', '9.5', '1234.56')
PyStrFloat(f) ==
    IF f.k = "nan" THEN <<"n", "a", "n">>
    ELSE IF f.k = "inf" THEN <<"i", "n", "f">>
    ELSE LET a == IF f.m < 0 THEN 0 - f.m ELSE f.m
             sign == IF f.m < 0 THEN <<"-">> ELSE <<>>
             ip == NatStr(a \div Pow10(f.e))
             fp == IF f.e = 0 THEN <<"0">> ELSE PadLeft(NatStr(a % Pow10(f.e)), f.e)
         IN sign \o ip \o <<".">> \o fp
\* Python's == on floats: NaN equals nothing, itself included
PyFloatEq(a, b) == a.k # "nan" /\ b.k # "nan" /\ a = b

(* ------------------------------ cells ---------------------------------- *)
Txt(s) == [k |-> "txt", v |-> s]
\* pd.isna(value)
IsNa(c) == c.k \in {"nan", "nat"}
\* str(value)
PyStr(c) == IF c.k = "txt" THEN c.v ELSE PyStrFloat(c)

(* --------------------------- clean_currency ---------------------------- *)
\* the one-character strings of the euro, dollar and pound signs (the two
\* non-ASCII signs are written by their ISO codes)
Euro == "EUR"
Dollar == "$"
Pound == "GBP"
\* the currency symbols the code removes
CodeSymbols == {Euro, Dollar}
\* the currency symbols the specification lists
SpecSymbols == {Euro, Dollar, Pound}
RemoveAll(s, cs) == SelectSeq(s, LAMBDA ch : ch \notin cs)

\* the separator rule and the parse, after the symbols are gone
SeparatorRule(s) ==
    IF Contains(s, ",") /\ Contains(s, ".")
    THEN IF Find(s, ".") < Find(s, ",")
         THEN Replace(Remove(s, "."), ",", ".")
         ELSE Remove(s, ",")
    ELSE IF Contains(s, ",") THEN Replace(s, ",", ".")
    ELSE s
OrZero(f) == IF f = ValueError THEN Zero ELSE f

clean_currency(value) ==
    IF IsNa(value) \/ Strip(PyStr(value)) = <<>> THEN Zero
    ELSE IF value.k # "txt" THEN value
    ELSE LET s == Strip(RemoveAll(PyStr(value), CodeSymbols))
         IN OrZero(PyFloat(SeparatorRule(s)))

\* the rule of the specification's currency contract
parse_currency(text) ==
    LET s == Strip(RemoveAll(text, SpecSymbols))
    IN IF s = <<>> THEN Zero ELSE OrZero(PyFloat(SeparatorRule(s)))


(* ----------------------------- timestamps ------------------------------ *)
NaT == [k |-> "nat"]
Ts(y, mo, d, hm) == [k |-> "ts", y |-> y, mo |-> mo, d |-> d, hm |-> hm]
\* a date text "dd/mm/yyyy HH:MM" (HH:MM absent when hm = 0)
DText(a, b, c, hm) == [k |-> "dtxt", f |-> <<a, b, c, hm>>]
\* pd.to_datetime(cell, dayfirst=True, errors='coerce') of one cell: the
\* first field of a date text is the day, the second the month; a text
\* that is no date becomes NaT; an integer counts nanoseconds from 1970
to_datetime(cell) ==
    IF cell.k = "dtxt"
    THEN IF cell.f[2] \in 1..12 /\ cell.f[1] \in 1..31 THEN Ts(cell.f[3], cell.f[2], cell.f[1], cell.f[4]) ELSE NaT
    ELSE IF cell.k = "ts" THEN cell
    ELSE IF cell.k = "num" THEN Ts(1970, 1, 1, 0)
    ELSE NaT
\* (variant of normalize: the time of day is kept)
normalize_keeps_time(t) == t
\* Series.dt.normalize(): the time of day is set to midnight, NaT stays NaT
normalize(t) == IF t.k = "ts" THEN Ts(t.y, t.mo, t.d, 0) ELSE t
\* the order of timestamps
TsKey(t) == ((t.y * 12 + t.mo) * 31 + t.d) * 2400 + t.hm

(* ------------------------------ frames --------------------------------- *)
\* A DataFrame: its column names and its rows; a row is its index label i
\* and its cells c, a function of the column names.
EmptyFrame == [cols |-> {}, rows |-> <<>>]
\* DataFrame.empty
IsEmptyFrame(df) == df.cols = {} \/ df.rows = <<>>
\* the same function, tabulated
Eager(f) == f @@ << >>
\* Body(v), with v evaluated once
With(v, Body(_)) == CHOOSE out \in {Body(x) : x \in {v}} : TRUE
Row(i, cells) == [i |-> i, c |-> Eager(cells)]
Frame(cols, rows) == [cols |-> cols, rows |-> Eager(rows)]
Indices(n) == Eager([i \in 1..n |-> i])
MapRows(df, F(_)) == With(df, LAMBDA d : Frame(d.cols, [n \in 1..Len(d.rows) |-> Row(d.rows[n].i, F(d.rows[n].c))]))
\* df[col] = df[col].apply(F)
ApplyCol(df, col, F(_)) == MapRows(df, LAMBDA r : [r EXCEPT ![col] = F(r[col])])
\* df[col] = G(row), a new or replaced column
SetCol(df, col, G(_)) == With(df, LAMBDA d : Frame(d.cols \cup {col}, [n \in 1..Len(d.rows) |-> Row(d.rows[n].i, [c \in d.cols \cup {col} |-> IF c = col THEN G(d.rows[n].c) ELSE d.rows[n].c[c]])]))
\* boolean-mask selection and dropna: the rows satisfying Keep, labels kept
FilterRows(df, Keep(_)) == With(df, LAMBDA d : Frame(d.cols, SelectSeq(d.rows, LAMBDA r : Keep(r.c))))

\* gspread's numericise: a cell that int() or float() accepts becomes a number
Numericise(cell) == IF cell.k = "txt" /\ cell.v # <<>> /\ PyFloat(cell.v) # ValueError THEN PyFloat(cell.v) ELSE cell
\* worksheet.get_all_records(): one record per row under the header row
get_all_records(sheet) == Eager([n \in 1..Len(sheet.rows) |-> Eager([c \in sheet.header |-> Numericise(sheet.rows[n][c])])])
\* pd.DataFrame(records): no records give a frame without columns
DataFrame(records, header) == IF records = <<>> THEN EmptyFrame ELSE Frame(header, [n \in 1..Len(records) |-> Row(n, records[n])])

\* (variant of MergePairs: how='inner', a left row without a match is lost)
RECURSIVE MergePairs_inner(_, _, _, _)
MergePairs_inner(L, R, key, n) ==
    IF n > Len(L) THEN <<>>
    ELSE LET m == SelectSeq(Indices(Len(R)), LAMBDA j : R[j].c[key] = L[n].c[key])
         IN [j \in 1..Len(m) |-> <<n, m[j]>>] \o MergePairs_inner(L, R, key, n + 1)
\* df.merge(right, on=key, how='left'): every left row in order, once per
\* matching right row (in the right frame's order), or once with no match
RECURSIVE MergePairs(_, _, _, _)
MergePairs(L, R, key, n) ==
    IF n > Len(L) THEN <<>>
    ELSE LET m == SelectSeq(Indices(Len(R)), LAMBDA j : R[j].c[key] = L[n].c[key])
         IN (IF m = <<>> THEN <<<<n, 0>>>> ELSE [j \in 1..Len(m) |-> <<n, m[j]>>]) \o MergePairs(L, R, key, n + 1)
\* a column of both frames other than the key gets the suffix _x or _y
LeftName(c, key, rcols) == IF c # key /\ c \in rcols THEN c \o "_x" ELSE c
RightName(c, lcols) == IF c \in lcols THEN c \o "_y" ELSE c
MergedCols(lcols, rcols, key) == {LeftName(c, key, rcols) : c \in lcols} \cup {RightName(c, lcols) : c \in rcols \ {key}}
MergedRow(l, r, matched, lcols, rcols, key) ==
    [c2 \in MergedCols(lcols, rcols, key) |->
        IF \E c \in lcols : LeftName(c, key, rcols) = c2
        THEN l[CHOOSE c \in lcols : LeftName(c, key, rcols) = c2]
        ELSE IF matched THEN r[CHOOSE c \in rcols \ {key} : RightName(c, lcols) = c2] ELSE NaN]
MergeOf(left, right, key, prs) ==
    Frame(MergedCols(left.cols, right.cols, key),
          [n \in 1..Len(prs) |->
              Row(n, MergedRow(left.rows[prs[n][1]].c,
                               IF prs[n][2] = 0 THEN << >> ELSE right.rows[prs[n][2]].c,
                               prs[n][2] # 0, left.cols, right.cols, key))])
Merge(left, right, key) ==
    With(<<left, right>>, LAMBDA lr : With(MergePairs(lr[1].rows, lr[2].rows, key, 1), LAMBDA prs : MergeOf(lr[1], lr[2], key, prs)))
\* DataFrame.fillna(0)
FillNa0(df) == MapRows(df, LAMBDA r : [c \in DOMAIN r |-> IF IsNa(r[c]) THEN Zero ELSE r[c]])

(* ----------------------------- load_data ------------------------------- *)
\* rename_map
RenameCol(c) ==
    CASE c = "Sensation_Prezzo" -> "Price"
      [] c = "Sensation_Posizione" -> "Rank"
      [] c \in {"Codice", "id"} -> "Sku"
      [] OTHER -> c
\* df_p.rename(columns=rename_map)
Rename(df) ==
    With(df, LAMBDA d : With({RenameCol(c) : c \in d.cols}, LAMBDA newcols :
        Frame(newcols, [n \in 1..Len(d.rows) |-> Row(d.rows[n].i, [c2 \in newcols |-> d.rows[n].c[CHOOSE c \in d.cols : RenameCol(c) = c2]])])))
\* the Sku column as stripped text (a non-empty frame only)
Standardise(df) ==
    With(df, LAMBDA d : IF IsEmptyFrame(d) \/ "Sku" \notin d.cols THEN d
                        ELSE ApplyCol(d, "Sku", LAMBDA v : Txt(Strip(PyStr(v)))))
\* a column the price frame lacks is created with its default
WithDefault(df, col, dflt) == With(df, LAMBDA d : IF col \in d.cols THEN d ELSE SetCol(d, col, LAMBDA r : dflt))
\* int() of a float: the fraction is dropped
Trunc(f) == Num(f.m \div Pow10(f.e), 0)
\* pd.to_numeric(errors='coerce').fillna(99).astype(int) of one cell
to_rank(cell) ==
    LET f == IF cell.k = "txt" THEN PyFloat(cell.v) ELSE cell
    IN IF f.k = "num" THEN Trunc(f) ELSE Num(99, 0)
CleanPrices(df) == ApplyCol(ApplyCol(ApplyCol(df, "Price", clean_currency), "Comp_1_Prezzo", clean_currency), "Rank", to_rank)
CleanIfPresent(df, col) == With(df, LAMBDA d : IF col \in d.cols THEN ApplyCol(d, col, clean_currency) ELSE d)
CleanRevenue(df) == With(df, LAMBDA d : IF IsEmptyFrame(d) THEN d ELSE CleanIfPresent(CleanIfPresent(d, "Entrate"), "Vendite"))
\* the frame that stands for a worksheet that could not be read
NoRevenueFrame == [cols |-> {"Sku", "Entrate", "Vendite"}, rows |-> <<>>]
\* the column the observation date is read from, "" when there is none
DateColumn(cols) == IF "Data" \in cols THEN "Data" ELSE IF "Data_esecuzione" \in cols THEN "Data_esecuzione" ELSE ""
WithDate(df, clock) ==
    With(df, LAMBDA d : With(DateColumn(d.cols), LAMBDA dc :
        SetCol(d, "Data_dt", LAMBDA r : normalize(IF dc = "" THEN clock ELSE to_datetime(r[dc])))))
WithCategoria(df) ==
    With(df, LAMBDA d : IF "Categoria" \in d.cols THEN d
                        ELSE SetCol(d, "Categoria", LAMBDA r : IF "Category" \in d.cols THEN r["Category"] ELSE Txt(<<"Generale">>)))

\* what a call of load_data leaves: the frame returned, the st.error
\* message, the pairs the merge joined and the wall clock if it was read
Returned(df, prs, now) == [df |-> df, error |-> "", lineage |-> prs, now |-> now]
Raised(msg) == [df |-> EmptyFrame, error |-> msg, lineage |-> <<>>, now |-> [k |-> "none"]]

\* the price frame after renaming, standardising, defaults and cleaning
PriceFrame(ps) ==
    CleanPrices(WithDefault(WithDefault(WithDefault(Standardise(Rename(DataFrame(get_all_records(ps), ps.header))), "Price", Zero), "Rank", Num(99, 0)), "Comp_1_Prezzo", Zero))
\* the revenue frame after standardising and cleaning
RevenueFrame(rs) ==
    CleanRevenue(Standardise(IF rs.exists THEN DataFrame(get_all_records(rs), rs.header) ELSE NoRevenueFrame))

\* lines 87-104: the merge, the dates, the category, the rows without a
\* date dropped
JoinAndDate(df_p, df_r, clock) ==
    With(FillNa0(Merge(df_p, df_r, "Sku")), LAMBDA m :
        Returned(FilterRows(WithCategoria(WithDate(m, clock)), LAMBDA r : ~IsNa(r["Data_dt"])),
                 MergePairs(df_p.rows, df_r.rows, "Sku", 1),
                 IF DateColumn(m.cols) = "" THEN clock ELSE [k |-> "none"]))
\* the body of load_data, the spreadsheet being reachable
load_data(ps, rs, clock) ==
    IF IsEmptyFrame(DataFrame(get_all_records(ps), ps.header)) THEN Returned(EmptyFrame, <<>>, [k |-> "none"])
    ELSE With(<<PriceFrame(ps), RevenueFrame(rs)>>, LAMBDA pr :
             IF "Sku" \notin pr[1].cols \/ "Sku" \notin pr[2].cols THEN Raised("KeyError: 'Sku'")
             ELSE JoinAndDate(pr[1], pr[2], clock))

(* ------------------------- spreadsheet contents ------------------------ *)
RECURSIVE SeqsUpTo(_, _)
SeqsUpTo(S, n) == IF n = 0 THEN {<<>>} ELSE LET T == SeqsUpTo(S, n - 1) IN T \cup {Append(t, x) : t \in {u \in T : Len(u) = n - 1}, x \in S}

\* headers of the price sheet: canonical; aliased own price and no rank;
\* none of the required columns; no date column; aliased, execution date
HFull == {"Sku", "Product", "Price", "Rank", "Comp_1_Prezzo", "Data"}
HAlias == {"Codice", "Product", "Sensation_Prezzo", "Comp_1_Prezzo", "Data"}
HBare == {"Product", "Data"}
HNoDate == {"Sku", "Product", "Price", "Rank", "Comp_1_Prezzo"}
HExec == {"id", "Product", "Sensation_Prezzo", "Sensation_Posizione", "Data_esecuzione"}
PriceHeaders == {HFull, HAlias, HBare, HNoDate, HExec}

PriceSkus == {<<"A", "1">>, <<"B", "2">>}
PriceTexts == {<<"1", "0", ",", "0", "0">>, <<"9", ",", "5", "0">>}
DateCells == {DText(15, 1, 2025, 0), DText(16, 1, 2025, 0), Txt(<<>>)}
\* the cell of column c in a price row of sku s, price p and date cell d
PriceCell(c, s, p, d) ==
    CASE c \in {"Sku", "Codice", "id"} -> Txt(s)
      [] c = "Product" -> Txt(<<"D", "i", "o", "r", " ">> \o s)
      [] c \in {"Price", "Sensation_Prezzo"} -> Txt(p)
      [] c \in {"Rank", "Sensation_Posizione"} -> Txt(<<"1">>)
      [] c = "Comp_1_Prezzo" -> Txt(<<"1", "2", ",", "0", "0">>)
      [] OTHER -> d
PriceRows(h, texts) == {[c \in h |-> PriceCell(c, s, p, d)] : s \in PriceSkus, p \in texts, d \in DateCells}
\* the price sheets of up to MaxRows rows under one of the headers hs, the
\* own prices drawn from texts
PriceSheets(hs, texts) == UNION {[header : {h}, rows : SeqsUpTo(PriceRows(h, texts), MaxRows)] : h \in hs}

\* headers of the revenue sheet: as ga4_sync writes it, and with a date
RevPlain == {"Sku", "Vendite", "Entrate"}
RevDated == {"Sku", "Vendite", "Entrate", "Data"}
RevSkus == {<<"A", "1", " ">>, <<"C", "3">>}
RevCell(c, s, d) ==
    CASE c = "Sku" -> Txt(s)
      [] c = "Vendite" -> Txt(<<"3">>)
      [] c = "Entrate" -> Txt(<<"1", "0", "0", ",", "5", "0">>)
      [] OTHER -> d
RevRows(h) == {[c \in h |-> RevCell(c, s, d)] : s \in RevSkus, d \in DateCells \ {Txt(<<>>)}}
NoRevSheet == [exists |-> FALSE, header |-> {}, rows |-> <<>>]
RevSheets(hs) == {NoRevSheet} \cup UNION {[exists : {TRUE}, header : {h}, rows : SeqsUpTo(RevRows(h), MaxRevRows)] : h \in hs}
\* the revenue sheets of the dashboard runs: missing, without rows, one
\* sku, two skus, one sku twice
RevRowA == [c \in RevPlain |-> RevCell(c, <<"A", "1", " ">>, Txt(<<>>))]
RevRowC == [c \in RevPlain |-> RevCell(c, <<"C", "3">>, Txt(<<>>))]
DashboardRevSheets == {NoRevSheet} \cup [exists : {TRUE}, header : {RevPlain}, rows : {<<>>, <<RevRowA>>, <<RevRowA, RevRowC>>, <<RevRowA, RevRowA>>}]

\* the wall clock
Clock == {Ts(2025, 1, 17, 930), Ts(2025, 1, 18, 0)}

(* --------------------------- AI clustering ----------------------------- *)
\* A response text is a sequence of tokens: a code fence ```, the word
\* json, whitespace, a word of prose, or one complete JSON document.
Fence == [tk |-> "fence"]
JsonWord == [tk |-> "json"]
Ws == [tk |-> "ws"]
Prose == [tk |-> "word"]
Doc(d) == [tk |-> "doc", doc |-> d]
RECURSIVE LStripWs(_)
LStripWs(s) == IF s # <<>> /\ Head(s) = Ws THEN LStripWs(Tail(s)) ELSE s
RECURSIVE RStripWs(_)
RStripWs(s) == IF s # <<>> /\ s[Len(s)] = Ws THEN RStripWs(SubSeq(s, 1, Len(s) - 1)) ELSE s
StripWs(s) == RStripWs(LStripWs(s))
\* re.search(r"```(?:json)?(.*?)```", text, re.DOTALL): the first fence
\* that a later fence follows, the word json after it skipped, and the
\* text up to the nearest later fence
clean_json_response(text) ==
    LET t == StripWs(text)
        fences == {i \in 1..Len(t) : t[i] = Fence}
    IN IF Cardinality(fences) >= 2
       THEN LET a == CHOOSE i \in fences : \A j \in fences : i <= j
                b == CHOOSE i \in fences \ {a} : \A j \in fences \ {a} : i <= j
                from == IF a + 1 < b /\ t[a + 1] = JsonWord THEN a + 2 ELSE a + 1
            IN StripWs(SubSeq(t, from, b - 1))
       ELSE t
JSONDecodeError == [t |-> "JSONDecodeError"]
\* json.loads: one document, whitespace around it allowed
json_loads(text) == LET t == StripWs(text) IN IF Len(t) = 1 /\ t[1].tk = "doc" THEN t[1].doc ELSE JSONDecodeError
\* JSON documents: an array of objects, an object, a scalar.  A field of
\* an object is a scalar ([list |-> FALSE]) or a list of n values.
JArray(items) == [t |-> "array", items |-> items]
JObject(fields) == [t |-> "object", fields |-> fields]
JScalar == [t |-> "scalar"]
JsonCell == [k |-> "json"]
Max(S) == CHOOSE x \in S : \A y \in S : y <= x
\* pd.DataFrame(obj); FrameError stands for the ValueError it raises
FrameError == [cols |-> {"ValueError"}, rows |-> <<>>]
FrameOfJson(j) ==
    IF j.t = "array"
    THEN IF j.items = <<>> THEN EmptyFrame
         ELSE LET cols == UNION {DOMAIN j.items[n] : n \in 1..Len(j.items)}
              IN Frame(cols, [n \in 1..Len(j.items) |-> Row(n, [c \in cols |-> IF c \in DOMAIN j.items[n] THEN j.items[n][c] ELSE NaN])])
    ELSE IF j.t = "object"
    THEN IF \A f \in DOMAIN j.fields : ~j.fields[f].list THEN FrameError
         ELSE LET n == Max({j.fields[f].n : f \in {g \in DOMAIN j.fields : j.fields[g].list}})
              IN Frame(DOMAIN j.fields, [m \in 1..n |-> Row(m, [c \in DOMAIN j.fields |-> JsonCell])])
    ELSE FrameError
\* the try block of ai_clustering_bulk; answered = FALSE when the call to
\* the model raises
ai_clustering_bulk(df_input, answered, text) ==
    IF IsEmptyFrame(df_input) THEN EmptyFrame
    ELSE IF ~answered THEN EmptyFrame
    ELSE With(json_loads(clean_json_response(text)), LAMBDA j :
            IF j = JSONDecodeError THEN EmptyFrame
            ELSE With(FrameOfJson(j), LAMBDA f : IF f = FrameError THEN EmptyFrame ELSE f))

Attacco == Txt(<<"Attacco">>)
SkuA1 == Txt(<<"A", "1">>)
DocGood == JArray(<<[Sku |-> SkuA1, Categoria |-> Attacco]>>)
DocNoSku == JArray(<<[id |-> SkuA1, Categoria |-> Attacco]>>)
DocOtherKey == JArray(<<[Sku |-> SkuA1, Cluster |-> Attacco]>>)
DocEmpty == JArray(<<>>)
DocObject == JObject([Sku |-> [list |-> FALSE, n |-> 0], Categoria |-> [list |-> FALSE, n |-> 0]])
DocWrapped == JObject([result |-> [list |-> TRUE, n |-> 1]])
Docs == {DocGood, DocNoSku, DocOtherKey, DocEmpty, DocObject, DocWrapped, JScalar}
\* the responses: a bare document, a fenced one, prose around a document,
\* an unclosed fence, nothing
AiTexts == {<<Doc(d)>> : d \in Docs} \cup {<<Fence, JsonWord, Ws, Doc(d), Ws, Fence>> : d \in Docs}
             \cup {<<Prose, Ws, Doc(DocGood)>>, <<Fence, Doc(DocGood)>>, <<>>}

(* ------------------------- sidebar and filters ------------------------- *)
ColumnValues(df, col) == {df.rows[n].c[col] : n \in 1..Len(df.rows)}
\* df_raw[mask_date]
Period(df, start, end) == FilterRows(df, LAMBDA r : TsKey(start) <= TsKey(r["Data_dt"]) /\ TsKey(r["Data_dt"]) <= TsKey(end))
\* the orders sort_values(col) may leave the rows in: ascending by the
\* column, rows of equal key in any order (the default sort algorithm,
\* quicksort, is not stable)
RECURSIVE SortedOrders(_, _, _)
SortedOrders(rows, col, S) ==
    IF S = {} THEN {<<>>}
    ELSE UNION {{<<i>> \o t : t \in SortedOrders(rows, col, S \ {i})} : i \in {j \in S : \A m \in S : TsKey(rows[j].c[col]) <= TsKey(rows[m].c[col])}}
sort_values(df, col) == {Frame(df.cols, [n \in 1..Len(o) |-> df.rows[o[n]]]) : o \in SortedOrders(df.rows, col, 1..Len(df.rows))}
\* (variant of drop_duplicates_last: keep='first')
drop_duplicates_first(df, col) ==
    With(SelectSeq(Indices(Len(df.rows)), LAMBDA n : \A m \in 1..(n - 1) : df.rows[m].c[col] # df.rows[n].c[col]), LAMBDA keep :
        Frame(df.cols, [n \in 1..Len(keep) |-> df.rows[keep[n]]]))
\* drop_duplicates(col, keep='last')
drop_duplicates_last(df, col) ==
    With(SelectSeq(Indices(Len(df.rows)), LAMBDA n : \A m \in (n + 1)..Len(df.rows) : df.rows[m].c[col] # df.rows[n].c[col]), LAMBDA keep :
        Frame(df.cols, [n \in 1..Len(keep) |-> df.rows[keep[n]]]))

\* comparison of finite floats
NumLeq(a, b) == a.m * Pow10(b.e) <= b.m * Pow10(a.e)
MinNum(S) == CHOOSE x \in S : \A y \in S : NumLeq(x, y)
MaxNum(S) == CHOOSE x \in S : \A y \in S : NumLeq(y, x)
\* the slider bounds: int(min), int(max) of a column
SliderBounds(df, col) == <<Trunc(MinNum(ColumnValues(df, col))).m, Trunc(MaxNum(ColumnValues(df, col))).m>>
InRange(cell, range) == NumLeq(Num(range[1], 0), cell) /\ NumLeq(cell, Num(range[2], 0))
\* str(p).split()[0]
RECURSIVE FirstWord(_)
FirstWord(s) == IF s = <<>> \/ IsSpace(Head(s)) THEN <<>> ELSE <<Head(s)>> \o FirstWord(Tail(s))
AllBrands(df) == {FirstWord(LStrip(p.v)) : p \in {q \in ColumnValues(df, "Product") : q.v # <<>>}}
AllCats(df) == ColumnValues(df, "Categoria")
IsSubstring(w, s) == \E a \in 1..(Len(s) - Len(w) + 1) : SubSeq(s, a, a + Len(w) - 1) = w
\* lines 205-215
ApplyFilters(df, w) ==
    FilterRows(FilterRows(FilterRows(df,
            LAMBDA r : w.brands = {} \/ \E b \in w.brands : IsSubstring(b, r["Product"].v)),
            LAMBDA r : w.cats = {} \/ r["Categoria"] \in w.cats),
            LAMBDA r : InRange(r["Price"], w.price) /\ InRange(r["Entrate"], w.revenue) /\ InRange(r["Vendite"], w.sales))
\* what the widgets can return: the defaults, or one widget changed
Ranges(b) == {<<b[1], b[2]>>, <<b[1], b[1]>>, <<b[2], b[2]>>}
DefaultChoice(df) == [brands |-> {}, cats |-> {}, price |-> SliderBounds(df, "Price"), revenue |-> SliderBounds(df, "Entrate"), sales |-> SliderBounds(df, "Vendite")]
WidgetChoicesFrom(df, d) ==
       {d} \cup {[d EXCEPT !.brands = {b}] : b \in AllBrands(df)} \cup {[d EXCEPT !.cats = {c}] : c \in AllCats(df)}
           \cup {[d EXCEPT !.price = r] : r \in Ranges(d.price)} \cup {[d EXCEPT !.revenue = r] : r \in Ranges(d.revenue)}
           \cup {[d EXCEPT !.sales = r] : r \in Ranges(d.sales)}
WidgetChoices(df) == With(DefaultChoice(df), LAMBDA d : WidgetChoicesFrom(df, d))

(* ------------------------------ first tab ------------------------------ *)
Dash == Txt(<<"-">>)
cols_show == {"Sku", "Product", "Rank", "Price", "Comp_1_Prezzo", "Entrate", "Vendite", "Classificazione AI"}
\* lines 243-249: the product list; error is the uncaught exception, "" when
\* the table is displayed
ProductList(view, clusters) ==
    IF IsEmptyFrame(clusters)
    THEN [df |-> SetCol(view, "Classificazione AI", LAMBDA r : Dash), error |-> ""]
    ELSE IF "Sku" \notin clusters.cols THEN [df |-> EmptyFrame, error |-> "KeyError: 'Sku'"]
    ELSE With(Merge(view, clusters, "Sku"), LAMBDA m :
            IF "Categoria" \notin m.cols THEN [df |-> EmptyFrame, error |-> "KeyError: 'Categoria'"]
            ELSE With(SetCol(m, "Classificazione AI", LAMBDA r : IF IsNa(r["Categoria"]) THEN Dash ELSE r["Categoria"]), LAMBDA d :
                    IF cols_show \subseteq d.cols THEN [df |-> d, error |-> ""] ELSE [df |-> EmptyFrame, error |-> "KeyError: not in index"]))

(* ------------------------------ the run -------------------------------- *)
None == [k |-> "none"]
NoCache == [valid |-> FALSE]
NoChoice == [brands |-> {}, cats |-> {}, price |-> <<0, 0>>, revenue |-> <<0, 0>>, sales |-> <<0, 0>>]
FreshRun ==
    /\ df_period = EmptyFrame /\ df_latest = EmptyFrame /\ ui = NoChoice /\ clicked = FALSE
    /\ df_filtered = EmptyFrame /\ df_display = EmptyFrame /\ render_error = ""
NotLoaded == /\ load_reachable = TRUE /\ load_now = None /\ df_raw = EmptyFrame /\ load_error = "" /\ lineage = <<>>
IdleSync == /\ sheet1 = <<>> /\ scraper_runs = 0 /\ ga4_status = "idle" /\ ga4_table = <<>>
IdleCurrency == /\ cx = <<>> /\ cdeco = [sym |-> "", side |-> "none", gap |-> FALSE] /\ cy = None /\ cz = None /\ cpc = "idle"

\* lines 45-107 and 151-152: the cached load_data and the stop on an empty
\* table.  reachable = FALSE: opening the spreadsheet raises.
LoadData ==
    /\ pc = "start"
    /\ \E reachable \in BOOLEAN, clock \in Clock :
         \E entry \in {IF cache.valid THEN cache
                       ELSE [valid |-> TRUE, ret |-> IF reachable THEN load_data(priceSheet, revSheet, clock) ELSE Raised("fetch failed")]} :
            /\ cache' = entry
            /\ load_reachable' = reachable
            /\ df_raw' = entry.ret.df
            /\ load_error' = entry.ret.error
            /\ lineage' = entry.ret.lineage
            /\ load_now' = entry.ret.now
            /\ pc' = IF IsEmptyFrame(entry.ret.df) THEN "stopped" ELSE "sidebar"
    /\ UNCHANGED <<curvars, sheetvars, runvars, ai_clusters>>

\* lines 160-175: the period and the snapshot
SidebarPeriod ==
    /\ pc = "sidebar"
    /\ \E start \in ColumnValues(df_raw, "Data_dt"), end \in ColumnValues(df_raw, "Data_dt") :
         /\ TsKey(start) <= TsKey(end)
         /\ \E period \in {Period(df_raw, start, end)} :
              /\ df_period' = period
              /\ \E sorted \in sort_values(period, "Data_dt") :
                   df_latest' = drop_duplicates_last(sorted, "Sku")
    /\ pc' = "widgets"
    /\ UNCHANGED <<curvars, sheetvars, cache, loadvars, ui, clicked, df_filtered, df_display, render_error, ai_clusters>>

\* lines 177-193: the filter widgets
SidebarWidgets ==
    /\ pc = "widgets"
    /\ ui' \in WidgetChoices(df_latest)
    /\ pc' = "buttons"
    /\ UNCHANGED <<curvars, sheetvars, cache, loadvars, df_period, df_latest, clicked, df_filtered, df_display, render_error, ai_clusters>>

\* lines 196-198: the clustering button, not pressed
NoClick ==
    /\ pc = "buttons"
    /\ pc' = "render"
    /\ UNCHANGED <<curvars, sheetvars, cache, loadvars, runvars, ai_clusters>>

\* lines 196-198: the clustering button, pressed
ClusteringClick ==
    /\ pc = "buttons"
    /\ \E answered \in BOOLEAN, text \in AiTexts :
         ai_clusters' = ai_clustering_bulk(df_latest, answered, text)
    /\ clicked' = TRUE
    /\ pc' = "render"
    /\ UNCHANGED <<curvars, sheetvars, cache, loadvars, df_period, df_latest, ui, df_filtered, df_display, render_error>>

\* lines 200-202: the reset button clears the cache and reruns the script
ResetCache ==
    /\ pc = "buttons"
    /\ cache' = NoCache
    /\ pc' = "start"
    /\ df_period' = EmptyFrame /\ df_latest' = EmptyFrame /\ ui' = NoChoice /\ clicked' = FALSE
    /\ df_filtered' = EmptyFrame /\ df_display' = EmptyFrame /\ render_error' = ""
    /\ UNCHANGED <<curvars, sheetvars, loadvars, ai_clusters>>

\* lines 205-249: the filters and the first tab
RenderTab1 ==
    /\ pc = "render"
    /\ \E f \in {ApplyFilters(df_latest, ui)} :
         \E res \in {ProductList(f, ai_clusters)} :
            /\ df_filtered' = f
            /\ df_display' = res.df
            /\ render_error' = res.error
            /\ pc' = IF res.error = "" THEN "done" ELSE "crashed"
    /\ UNCHANGED <<curvars, sheetvars, cache, loadvars, df_period, df_latest, ui, clicked, ai_clusters>>

\* a user interaction starts the script again; the session state and the
\* cache persist
Rerun ==
    /\ pc \in {"stopped", "done", "crashed"}
    /\ pc' = "start"
    /\ df_period' = EmptyFrame /\ df_latest' = EmptyFrame /\ ui' = NoChoice /\ clicked' = FALSE
    /\ df_filtered' = EmptyFrame /\ df_display' = EmptyFrame /\ render_error' = ""
    /\ UNCHANGED <<curvars, sheetvars, cache, loadvars, ai_clusters>>

\* ttl=600: the cache entry expires
CacheExpire ==
    /\ cache.valid
    /\ cache' = NoCache
    /\ UNCHANGED <<curvars, sheetvars, pc, loadvars, runvars, ai_clusters>>

(* --------------------------- specifications ---------------------------- *)
InitRun == /\ cache = NoCache /\ pc = "start" /\ NotLoaded /\ FreshRun /\ ai_clusters = EmptyFrame /\ IdleCurrency /\ IdleSync

\* load_data over the spreadsheets: every header, both revenue headers; a
\* dated revenue sheet only beside a price sheet that has a Data column
InitLoad ==
    /\ priceSheet \in PriceSheets(PriceHeaders, {<<"9", ",", "5", "0">>})
    /\ revSheet \in RevSheets({RevPlain, RevDated})
    /\ ("Data" \in revSheet.header => "Data" \in priceSheet.header)
    /\ InitRun
SpecLoad == InitLoad /\ [][LoadData]_vars

\* the dashboard over canonical price sheets
Init ==
    /\ priceSheet \in PriceSheets({HFull, HNoDate}, PriceTexts)
    /\ revSheet \in DashboardRevSheets
    /\ InitRun
\* the script up to the snapshot
NextSnapshot == LoadData \/ SidebarPeriod
SpecSnapshot == Init /\ [][NextSnapshot]_vars
\* the loads of successive runs
NextReload == LoadData \/ Rerun \/ CacheExpire
SpecReload == Init /\ [][NextReload]_vars
\* one run without the buttons: load, sidebar, filters, first tab
NextFilters == LoadData \/ SidebarPeriod \/ SidebarWidgets \/ NoClick \/ RenderTab1
SpecFilters == Init /\ [][NextFilters]_vars
Next == LoadData \/ SidebarPeriod \/ SidebarWidgets \/ NoClick \/ ClusteringClick \/ ResetCache \/ RenderTab1 \/ Rerun \/ CacheExpire
Spec == Init /\ [][Next]_vars

(* ------------------------- the scraper (scraper.py) -------------------- *)
\* a row of sheet1: the header row, or row n of the table of a run
HeaderRow == [h |-> TRUE, run |-> 0, n |-> 0]
DataRow(run, n) == [h |-> FALSE, run |-> run, n |-> n]
\* set_with_dataframe(sheet, df, row=r): the rows of block are written from
\* row r on, the sheet growing as needed; every other row stays
WriteAt(g, r, block) ==
    [i \in 1..(IF Len(g) > r - 1 + Len(block) THEN Len(g) ELSE r - 1 + Len(block)) |->
        IF i >= r /\ i <= r - 1 + Len(block) THEN block[i - r + 1] ELSE g[i]]
\* the dashboard and clean_currency stand still
DashboardIdle == UNCHANGED <<curvars, priceSheet, cache, pc, loadvars, runvars, ai_clusters>>

\* lines 73-117 and 168-169: sync_data returns, or fails, before it writes
ScraperNoWrite ==
    /\ scraper_runs < MaxSyncRuns
    /\ scraper_runs' = scraper_runs + 1
    /\ UNCHANGED <<sheet1, revSheet, ga4_status, ga4_table>>
    /\ DashboardIdle

\* lines 143-166: the next row is read from column A (read_ok = FALSE:
\* col_values raises) and the table of n rows is written there, with its
\* header when the next row is 1
ScraperWrite ==
    /\ scraper_runs < MaxSyncRuns
    /\ scraper_runs' = scraper_runs + 1
    /\ \E read_ok \in BOOLEAN, n \in 1..MaxRows :
         \E next_row \in {IF read_ok THEN Len(sheet1) + 1 ELSE 1} :
            sheet1' = WriteAt(sheet1, next_row,
                              (IF next_row = 1 THEN <<HeaderRow>> ELSE <<>>) \o [j \in 1..n |-> DataRow(scraper_runs + 1, j)])
    /\ UNCHANGED <<revSheet, ga4_status, ga4_table>>
    /\ DashboardIdle

InitSync ==
    /\ priceSheet = [header |-> {}, rows |-> <<>>]
    /\ cache = NoCache /\ pc = "idle" /\ NotLoaded /\ FreshRun /\ ai_clusters = EmptyFrame /\ IdleCurrency /\ IdleSync
InitScraper == InitSync /\ revSheet = NoRevSheet
NextScraper == ScraperNoWrite \/ ScraperWrite
SpecScraper == InitScraper /\ [][NextScraper]_vars

(* ------------------------ the GA4 sync (ga4_sync.py) ------------------- *)
\* the tables get_ga4_data returns with rows
Ga4Rows == {[c \in RevPlain |-> RevCell(c, sku, Txt(<<>>))] : sku \in PriceSkus \cup RevSkus}
Ga4Tables == SeqsUpTo(Ga4Rows, MaxRevRows) \ {<<>>}
\* the worksheet after clear(), or as add_worksheet creates it
ClearedSheet == [exists |-> TRUE, header |-> {}, rows |-> <<>>]
\* the worksheet after set_with_dataframe(worksheet, df_ga4)
WrittenSheet(table) == [exists |-> TRUE, header |-> RevPlain, rows |-> table]
SyncIdle == UNCHANGED <<sheet1, scraper_runs>> /\ DashboardIdle

\* lines 70-74: get_ga4_data gave no rows (no credentials, an API error, an
\* empty report)
Ga4NoData ==
    /\ ga4_status' = "failed"
    /\ ga4_table' = <<>>
    /\ UNCHANGED revSheet
    /\ SyncIdle

\* lines 78-93 and 103-104: the credentials, the spreadsheet, the worksheet
\* lookup, clear() or add_worksheet raises
Ga4OpenFails ==
    /\ ga4_status' = "failed"
    /\ ga4_table' \in Ga4Tables
    /\ UNCHANGED revSheet
    /\ SyncIdle

\* lines 87-96 and 103-104: the worksheet is cleared, or created, and
\* set_with_dataframe raises
Ga4WriteFails ==
    /\ ga4_status' = "failed"
    /\ ga4_table' \in Ga4Tables
    /\ revSheet' = ClearedSheet
    /\ SyncIdle

\* lines 96-104: the table is written and columns_auto_resize raises
Ga4ResizeFails ==
    /\ ga4_status' = "failed"
    /\ ga4_table' \in Ga4Tables
    /\ revSheet' = WrittenSheet(ga4_table')
    /\ SyncIdle

\* lines 68-101: the run completes
Ga4Sync ==
    /\ ga4_status' = "ok"
    /\ ga4_table' \in Ga4Tables
    /\ revSheet' = WrittenSheet(ga4_table')
    /\ SyncIdle

InitGa4 == InitSync /\ revSheet \in RevSheets({RevPlain})
NextGa4 == Ga4NoData \/ Ga4OpenFails \/ Ga4WriteFails \/ Ga4ResizeFails \/ Ga4Sync
SpecGa4 == InitGa4 /\ [][NextGa4]_vars

(* ----------------------- currency specification ------------------------ *)
Alphabet == {"1", "2", ",", ".", Euro, Dollar, Pound, " ", "n", "a"}
RECURSIVE TextsUpTo(_)
TextsUpTo(n) == IF n = 0 THEN {<<>>} ELSE LET T == TextsUpTo(n - 1) IN T \cup {Append(t, c) : t \in {u \in T : Len(u) = n - 1}, c \in Alphabet}
Examples == {<<"1", ".", "2", "3", "4", ",", "5", "6", " ", Euro>>, <<"1", ",", "2", "3", "4", ".", "5", "6">>, <<"a", "b", "c">>, <<"1", "2", ",", "5", "0">>}
CurrencyTexts == TextsUpTo(MaxLen) \cup Examples

NoDeco == [sym |-> "", side |-> "none", gap |-> FALSE]
Decorations == {NoDeco} \cup [sym : SpecSymbols, side : {"before", "after"}, gap : BOOLEAN]
Decorate(t, d) ==
    LET g == IF d.gap THEN <<" ">> ELSE <<>>
    IN IF d.side = "before" THEN <<d.sym>> \o g \o t
       ELSE IF d.side = "after" THEN t \o g \o <<d.sym>>
       ELSE t

InitCurrency ==
    /\ cx \in CurrencyTexts
    /\ cdeco \in Decorations
    /\ cy = None
    /\ cz = None
    /\ cpc = "call"
    /\ priceSheet = [header |-> {}, rows |-> <<>>] /\ revSheet = NoRevSheet
    /\ cache = NoCache /\ pc = "idle" /\ NotLoaded /\ FreshRun /\ ai_clusters = EmptyFrame /\ IdleSync

\* clean_currency applied to the (decorated) text
CleanCurrencyCall ==
    /\ cpc = "call"
    /\ cy' = clean_currency(Txt(Decorate(cx, cdeco)))
    /\ cpc' = "parsed"
    /\ UNCHANGED <<cx, cdeco, cz, sheetvars, cache, pc, loadvars, runvars, ai_clusters>>

\* clean_currency applied to str() of its own result
CleanCurrencyAgain ==
    /\ cpc = "parsed"
    /\ cz' = clean_currency(Txt(PyStrFloat(cy)))
    /\ cpc' = "reparsed"
    /\ UNCHANGED <<cx, cdeco, cy, sheetvars, cache, pc, loadvars, runvars, ai_clusters>>

NextCurrency == CleanCurrencyCall \/ CleanCurrencyAgain

SpecCurrency == InitCurrency /\ [][NextCurrency]_vars

(* -------------------------- load_data properties ----------------------- *)
\* load_data has been called and the spreadsheet was reachable
BodyRan == pc \notin {"start", "idle"} /\ load_error # "fetch failed"
\* the price sheet has records and an identifier column under one of its names
PriceHasSku == priceSheet.rows # <<>> /\ \E c \in priceSheet.header : RenameCol(c) = "Sku"
\* the revenue worksheet has records with a Sku column
RevHasSku == revSheet.exists /\ revSheet.rows # <<>> /\ "Sku" \in revSheet.header
\* the price row and the revenue row (0: none) the returned row n comes from
PriceRowOf(n) == lineage[df_raw.rows[n].i][1]
RevRowOf(n) == lineage[df_raw.rows[n].i][2]
ReturnedRows == 1..Len(df_raw.rows)
\* the returned row n is the price row p, with zero revenue and units sold
\* when no revenue row matched it
Carries(n, p) ==
    /\ PriceRowOf(n) = p
    /\ df_raw.rows[n].c["Product"] = priceSheet.rows[p]["Product"]
    /\ RevRowOf(n) = 0 => df_raw.rows[n].c["Entrate"] = Zero /\ df_raw.rows[n].c["Vendite"] = Zero
\* the date of price row p is usable: the joined table has no date column,
\* or the row's cell in that column parses
RowDated(p) ==
    \/ DateColumn(df_raw.cols) = ""
    \/ to_datetime(priceSheet.rows[p][DateColumn(df_raw.cols)]) # NaT

DayOf(cell) == normalize(to_datetime(cell))
\* C3: when the revenue sheet has a date column, a revenue row is attached
\* only to the price row of the same sku and the same day: a returned row
\* of a dated price row that carries a revenue row has that revenue row's
\* day.
C3_SameDayMerge ==
    (BodyRan /\ load_error = "" /\ revSheet.exists /\ "Data" \in revSheet.header /\ "Data" \in priceSheet.header) =>
        \A n \in ReturnedRows :
            (RevRowOf(n) # 0 /\ DayOf(priceSheet.rows[PriceRowOf(n)]["Data"]) # NaT)
                => DayOf(priceSheet.rows[PriceRowOf(n)]["Data"]) = DayOf(revSheet.rows[RevRowOf(n)]["Data"])

\* C4: a revenue sheet that is missing, or present without rows, is an
\* empty table and no error: load_data returns every (dated) price row with
\* Entrate = 0 and Vendite = 0.
C4_EmptyRevenueIsNoError ==
    (BodyRan /\ PriceHasSku /\ (~revSheet.exists \/ revSheet.rows = <<>>)) =>
        /\ load_error = ""
        /\ \A p \in 1..Len(priceSheet.rows) : RowDated(p) =>
               \E n \in ReturnedRows : Carries(n, p) /\ df_raw.rows[n].c["Entrate"] = Zero /\ df_raw.rows[n].c["Vendite"] = Zero

\* the canonical columns read downstream and their defaults
Canonical == {"Sku", "Price", "Rank", "Comp_1_Prezzo"}
DefaultOf(c) == IF c = "Sku" THEN Txt(<<>>) ELSE IF c = "Rank" THEN Num(99, 0) ELSE Zero
\* C5: whatever columns the header of the price sheet has, reconciliation
\* does not fail and the returned table has the columns Sku, Price, Rank
\* and Comp_1_Prezzo, a column the header lacks holding its default (0, 99,
\* the empty string).  Stated for a missing revenue sheet.
C5_ReconciliationNeverFails ==
    (BodyRan /\ priceSheet.rows # <<>> /\ ~revSheet.exists) =>
        /\ load_error = ""
        /\ Canonical \subseteq df_raw.cols
        /\ \A c \in Canonical : \A n \in ReturnedRows :
               (\A h \in priceSheet.header : RenameCol(h) # c) => df_raw.rows[n].c[c] = DefaultOf(c)

\* C6: when the loaded table has neither a Data nor a Data_esecuzione
\* column, every row's observation date is the day load_data ran, at
\* midnight, and every row of the join is returned.
C6_TodayAtMidnight ==
    (BodyRan /\ load_error = "" /\ priceSheet.rows # <<>> /\ DateColumn(df_raw.cols) = "") =>
        /\ load_now \in Clock
        /\ Len(df_raw.rows) = Len(lineage)
        /\ \A p \in 1..Len(priceSheet.rows) : \E n \in ReturnedRows : PriceRowOf(n) = p
        /\ \A n \in ReturnedRows : df_raw.rows[n].c["Data_dt"] = Ts(load_now.y, load_now.mo, load_now.d, 0)

\* a load, run at 9:30, of two price rows without a date column
C6_Witness ==
    /\ BodyRan /\ load_error = "" /\ DateColumn(df_raw.cols) = ""
    /\ Len(priceSheet.rows) = 2 /\ Len(df_raw.rows) >= 2
    /\ load_now \in Clock /\ load_now.hm # 0

\* C11: a failed fetch is an empty result and a message for the run in
\* which it occurs only: a run that calls load_data while the spreadsheet
\* is reachable does not get the result of a failed fetch.
C11_FailureOnlyThatRun ==
    (pc \notin {"start", "idle"} /\ load_reachable) => load_error # "fetch failed"

(* --------------------------- snapshot properties ----------------------- *)
PeriodRows == 1..Len(df_period.rows)
LatestRows == 1..Len(df_latest.rows)
\* C1: df_latest has exactly one row for every sku of the period rows, that
\* row is one of the period rows, and its observation date is the greatest
\* among the period rows of the sku.
C1_SnapshotLatestPerSku ==
    /\ \A m \in PeriodRows : Cardinality({n \in LatestRows : df_latest.rows[n].c["Sku"] = df_period.rows[m].c["Sku"]}) = 1
    /\ \A n \in LatestRows :
         /\ \E m \in PeriodRows : df_period.rows[m] = df_latest.rows[n]
         /\ \A m \in PeriodRows : df_period.rows[m].c["Sku"] = df_latest.rows[n].c["Sku"]
                => TsKey(df_period.rows[m].c["Data_dt"]) <= TsKey(df_latest.rows[n].c["Data_dt"])

\* a period with one sku observed on two days
C1_Witness ==
    /\ pc = "widgets"
    /\ Len(df_latest.rows) = 1
    /\ \E m1 \in PeriodRows, m2 \in PeriodRows :
         /\ df_period.rows[m1].c["Sku"] = df_period.rows[m2].c["Sku"]
         /\ TsKey(df_period.rows[m1].c["Data_dt"]) < TsKey(df_period.rows[m2].c["Data_dt"])

\* C13: among the period rows of a sku that share its greatest observation
\* date, df_latest keeps the one that comes last in input order (the one
\* with the greatest row label).
C13_TieKeepsLastInput ==
    \A n \in LatestRows : \A m \in PeriodRows :
        (/\ df_period.rows[m].c["Sku"] = df_latest.rows[n].c["Sku"]
         /\ df_period.rows[m].c["Data_dt"] = df_latest.rows[n].c["Data_dt"])
            => df_period.rows[m].i <= df_latest.rows[n].i

(* ---------------------------- filter properties ------------------------ *)
\* C14: with no brand and no category selected and every range at its
\* default (the computed minimum and maximum), df_filtered holds exactly
\* the rows of df_latest.
C14_DefaultsKeepAll ==
    (pc \in {"done", "crashed"} /\ ui = DefaultChoice(df_latest)) => df_filtered = df_latest

(* -------------------------- clustering properties ---------------------- *)
\* the table the prompt asks for: the columns Sku and Categoria
RequestedShape(clusters) == clusters.cols = {"Sku", "Categoria"}
\* C10: whatever text the service returns that is not a classification of
\* the requested shape (invalid JSON, fenced JSON, an object, objects
\* without a Sku key), the clustering action leaves a parsed or an empty
\* result and the run's first tab is rendered without an uncaught error.
C10_RenderSurvivesMalformed ==
    (clicked /\ pc \in {"done", "crashed"} /\ ~RequestedShape(ai_clusters)) => pc = "done" /\ render_error = ""

\* C15: after a clustering click whose answer parsed to a non-empty table
\* with the columns Sku and Categoria, the product list of that run is
\* rendered, and its column Classificazione AI holds the returned category
\* for each sku the table names and "-" for every other sku.
C15_WellFormedClassified ==
    (clicked /\ pc \in {"done", "crashed"} /\ RequestedShape(ai_clusters) /\ ~IsEmptyFrame(ai_clusters)) =>
        /\ pc = "done"
        /\ render_error = ""
        /\ "Classificazione AI" \in df_display.cols
        /\ \A n \in DOMAIN df_display.rows :
              IF \E m \in DOMAIN ai_clusters.rows : ai_clusters.rows[m].c["Sku"] = df_display.rows[n].c["Sku"]
              THEN \E m \in DOMAIN ai_clusters.rows :
                      /\ ai_clusters.rows[m].c["Sku"] = df_display.rows[n].c["Sku"]
                      /\ ai_clusters.rows[m].c["Categoria"] = df_display.rows[n].c["Classificazione AI"]
              ELSE df_display.rows[n].c["Classificazione AI"] = Dash

(* ---------------------------- sync properties -------------------------- *)
\* C12: a scraper run leaves every row that was in sheet1 where it was and
\* as it was, and writes the header row exactly when it finds the sheet
\* empty, whatever the read of column A gives.
C12_AppendsBelow ==
    [][/\ \A i \in 1..Len(sheet1) : Len(sheet1') >= i /\ sheet1'[i] = sheet1[i]
       /\ \A i \in (Len(sheet1) + 1)..Len(sheet1') : (sheet1'[i] = HeaderRow) <=> (i = 1)]_vars

\* C16: a run of sync_ga4_to_sheet that does not complete leaves the
\* Entrate worksheet as it was; the worksheet changes only in a run that
\* completes, and then holds exactly the table GA4 gave.
C16_FailedSyncKeepsSheet ==
    [][/\ ga4_status' = "failed" => revSheet'.header = revSheet.header /\ revSheet'.rows = revSheet.rows
       /\ (revSheet'.header # revSheet.header \/ revSheet'.rows # revSheet.rows)
              => ga4_status' = "ok" /\ revSheet' = WrittenSheet(ga4_table')]_vars

(* ------------------------- currency properties ------------------------- *)
\* the text handed to clean_currency
CurrencyInput == Decorate(cx, cdeco)
\* digits and separators only, with at least one digit
IsNumericText(t) == /\ \A i \in 1..Len(t) : t[i] \in Digits \cup {",", "."}
                    /\ \E i \in 1..Len(t) : t[i] \in Digits

\* C7: for every string input clean_currency returns the value of the
\* specification's rule (symbols and surrounding whitespace removed, the
\* separator rule applied, the rest parsed as a number, 0.0 for an empty
\* input or a parse failure).
C7_FollowsSpecRule == cpc # "call" => cy = parse_currency(CurrencyInput)

\* C8: clean_currency is idempotent: clean_currency(str(clean_currency(x)))
\* == clean_currency(x) for every string x.
C8_Idempotent == cpc = "reparsed" => PyFloatEq(cz, cy)

\* C9: for every numeric text t and each of the symbols EUR, USD, GBP placed
\* before or after t, with or without whitespace between, the result equals
\* clean_currency(t).
C9_SymbolsStripped == (cpc # "call" /\ cdeco.side # "none" /\ IsNumericText(cx)) => cy = clean_currency(Txt(cx))

====
